---------------------------- MODULE Spec2Model ----------------------------
(***************************************************************************)
(* A model of orchestrator/api/helpers.py: the path accessors update_in,   *)
(* get_in and product_block_paths over nested dict/list trees, the text    *)
(* query sanitizer _process_text_query, and the subscription listing       *)
(* _query_with_filters (filters, sort, range).                             *)
(*                                                                         *)
(* Python strings are sequences of one-character strings, so that split,   *)
(* lower, upper, endswith, int() and the f-strings are computed and not    *)
(* assumed.  Python objects live in a heap of dicts and lists addressed by *)
(* reference, so that dict(dct), which copies, differs from dct.           *)
(***************************************************************************)
EXTENDS Integers, Sequences, FiniteSets, TLC

VARIABLES heap, pathCall, textCall, queryCall

vars == <<heap, pathCall, textCall, queryCall>>

-----------------------------------------------------------------------------
(* Bounds of the model.                                                    *)

\* longest path, in segments, handed to update_in and get_in
MaxPathLen == 3

-----------------------------------------------------------------------------
(* Python strings.                                                         *)

Digits == <<"0", "1", "2", "3", "4", "5", "6", "7", "8", "9">>

DigitChars == {Digits[i] : i \in 1..Len(Digits)}

\* the value of one decimal digit character
DigitVal(c) == (CHOOSE i \in 1..Len(Digits) : Digits[i] = c) - 1

\* str.isdigit(): non-empty and every character a digit
isdigit(x) == Len(x) > 0 /\ \A i \in 1..Len(x) : x[i] \in DigitChars

\* int(x) for a string of digits
RECURSIVE int(_)
int(x) ==
    IF Len(x) = 0 THEN 0
    ELSE 10 * int(SubSeq(x, 1, Len(x) - 1)) + DigitVal(x[Len(x)])

\* str(n) for n >= 0
RECURSIVE str(_)
str(n) ==
    IF n < 10 THEN <<Digits[n + 1]>>
    ELSE str(n \div 10) \o <<Digits[(n % 10) + 1]>>

\* s.split(sep) for a one-character separator: always at least one piece
RECURSIVE split(_, _)
split(s, sep) ==
    IF \A i \in 1..Len(s) : s[i] # sep THEN <<s>>
    ELSE LET i == CHOOSE j \in 1..Len(s) :
                      s[j] = sep /\ \A k \in 1..(j - 1) : s[k] # sep
         IN <<SubSeq(s, 1, i - 1)>> \o split(SubSeq(s, i + 1, Len(s)), sep)

\* sep.join(parts)
RECURSIVE join(_, _)
join(parts, sep) ==
    IF Len(parts) = 0 THEN <<>>
    ELSE IF Len(parts) = 1 THEN parts[1]
    ELSE parts[1] \o sep \o join(Tail(parts), sep)

-----------------------------------------------------------------------------
(* Python values and the heap.  A value is an int, a str, None or a        *)
(* reference to a heap object; a heap object is a dict (its items in       *)
(* insertion order) or a list.                                             *)

IntVal(n) == [t |-> "int", n |-> n, s |-> <<>>]
StrVal(s) == [t |-> "str", n |-> 0, s |-> s]
None == [t |-> "none", n |-> 0, s |-> <<>>]
RefVal(id) == [t |-> "ref", n |-> id, s |-> <<>>]

DictObj(items) == [kind |-> "dict", items |-> items]
ListObj(items) == [kind |-> "list", items |-> items]
Item(k, v) == [k |-> k, v |-> v]

Root == 1

isinstance_dict(h, v) == v.t = "ref" /\ h[v.n].kind = "dict"
isinstance_list(h, v) == v.t = "ref" /\ h[v.n].kind = "list"

\* a fresh object identity, and the heap with a new object at it
NewId(h) == 1 + CHOOSE m \in DOMAIN h : \A i \in DOMAIN h : i <= m
Alloc(h, obj) ==
    [i \in DOMAIN h \cup {NewId(h)} |-> IF i \in DOMAIN h THEN h[i] ELSE obj]

\* the objects a value keeps alive
RECURSIVE Reachable(_, _)
Reachable(h, v) ==
    IF v.t # "ref" THEN {}
    ELSE LET o == h[v.n]
             kids == IF o.kind = "dict"
                     THEN {o.items[i].v : i \in 1..Len(o.items)}
                     ELSE {o.items[i] : i \in 1..Len(o.items)}
         IN {v.n} \cup UNION {Reachable(h, c) : c \in kids}

\* reference counting frees what no live reference reaches
Collect(h, live) ==
    LET keep == UNION {Reachable(h, v) : v \in live}
    IN [i \in keep |-> h[i]]

\* key in d
HasKey(items, k) == \E i \in 1..Len(items) : items[i].k = k
\* d[k] for a present key
ValueAt(items, k) == items[CHOOSE i \in 1..Len(items) : items[i].k = k].v
\* d[k] = v : replaces in place, or appends a new key last
SetItem(items, k, v) ==
    IF HasKey(items, k)
    THEN [i \in 1..Len(items) |->
            IF items[i].k = k THEN Item(k, v) ELSE items[i]]
    ELSE Append(items, Item(k, v))

-----------------------------------------------------------------------------
(* dict(x): a new dict built from a mapping or from an iterable of pairs.  *)
(* Returns [exc, items]; exc = "" when the constructor returns.            *)

\* one element of an iterable read as a (key, value) pair: iterating a dict
\* yields its keys, a str its characters; the key must be hashable
PairOf(h, e) ==
    IF e.t = "ref"
    THEN LET o == h[e.n] IN
         IF Len(o.items) # 2 THEN [exc |-> "ValueError", k |-> None, v |-> None]
         ELSE IF o.kind = "dict"
         THEN [exc |-> "", k |-> o.items[1].k, v |-> o.items[2].k]
         ELSE IF o.items[1].t = "ref"
         THEN [exc |-> "TypeError", k |-> None, v |-> None]
         ELSE [exc |-> "", k |-> o.items[1], v |-> o.items[2]]
    ELSE IF e.t = "str"
    THEN IF Len(e.s) # 2 THEN [exc |-> "ValueError", k |-> None, v |-> None]
         ELSE [exc |-> "", k |-> StrVal(<<e.s[1]>>), v |-> StrVal(<<e.s[2]>>)]
    ELSE [exc |-> "TypeError", k |-> None, v |-> None]

\* dict(iterable of pairs), element by element
RECURSIVE DictOfPairs(_, _, _, _)
DictOfPairs(h, elems, i, acc) ==
    IF i > Len(elems) THEN [exc |-> "", items |-> acc]
    ELSE LET p == PairOf(h, elems[i]) IN
         IF p.exc # "" THEN [exc |-> p.exc, items |-> <<>>]
         ELSE DictOfPairs(h, elems, i + 1, SetItem(acc, p.k, p.v))

dict(h, v) ==
    IF isinstance_dict(h, v) THEN [exc |-> "", items |-> h[v.n].items]
    ELSE IF isinstance_list(h, v) THEN DictOfPairs(h, h[v.n].items, 1, <<>>)
    ELSE IF v.t = "str"
    THEN DictOfPairs(h, [i \in 1..Len(v.s) |-> StrVal(<<v.s[i]>>)], 1, <<>>)
    ELSE [exc |-> "TypeError", items |-> <<>>]

-----------------------------------------------------------------------------
(* get_in(dct, path): the walk of lines 262-266 and the read of line 267.  *)

\* the loop from segment i on; returns [exc, prev, x], prev the container
\* the last segment was looked up in
RECURSIVE GetWalk(_, _, _, _)
GetWalk(h, dct, segs, i) ==
    LET x == segs[i]
        more(nxt) == IF i = Len(segs) THEN [exc |-> "", prev |-> dct, x |-> x]
                     ELSE GetWalk(h, nxt, segs, i + 1)
    IN IF isdigit(x) /\ isinstance_list(h, dct)
       THEN IF int(x) >= Len(h[dct.n].items)
            THEN [exc |-> "IndexError", prev |-> dct, x |-> x]
            ELSE more(h[dct.n].items[int(x) + 1])
       ELSE LET c == dict(h, dct) IN
            IF c.exc # "" THEN [exc |-> c.exc, prev |-> dct, x |-> x]
            ELSE more(IF HasKey(c.items, StrVal(x)) THEN ValueAt(c.items, StrVal(x))
                      ELSE None)

\* prev[x] with x a str: a list (or a str) takes no str index, a dict raises
\* on a missing key
get_in(h, dct, path) ==
    LET w == GetWalk(h, dct, split(path, "."), 1) IN
    IF w.exc # "" THEN [exc |-> w.exc, ret |-> None]
    ELSE IF ~isinstance_dict(h, w.prev) THEN [exc |-> "TypeError", ret |-> None]
    ELSE IF ~HasKey(h[w.prev.n].items, StrVal(w.x))
    THEN [exc |-> "KeyError", ret |-> None]
    ELSE [exc |-> "", ret |-> ValueAt(h[w.prev.n].items, StrVal(w.x))]

-----------------------------------------------------------------------------
(* update_in(dct, path, value): the walk of lines 248-255 and the write of *)
(* line 256.  dict(dct) is a new object: setdefault inserts the missing    *)
(* key into that copy.                                                     *)

\* the loop from segment i on; returns [exc, h, prev, x]
RECURSIVE UpdateWalk(_, _, _, _)
UpdateWalk(h, dct, segs, i) ==
    LET x == segs[i]
        more(h2, nxt) ==
            IF i = Len(segs) THEN [exc |-> "", h |-> h2, prev |-> dct, x |-> x]
            ELSE UpdateWalk(h2, nxt, segs, i + 1)
    IN IF isdigit(x) /\ isinstance_list(h, dct)
       THEN IF int(x) >= Len(h[dct.n].items)
            THEN [exc |-> "IndexError", h |-> h, prev |-> dct, x |-> x]
            ELSE more(h, h[dct.n].items[int(x) + 1])
       ELSE LET c == dict(h, dct) IN
            IF c.exc # "" THEN [exc |-> c.exc, h |-> h, prev |-> dct, x |-> x]
            ELSE LET hc == Alloc(h, DictObj(c.items))
                     copy == NewId(h)
                 IN IF HasKey(c.items, StrVal(x))
                    THEN more(hc, ValueAt(c.items, StrVal(x)))
                    ELSE LET hf == Alloc(hc, DictObj(<<>>))
                             fresh == NewId(hc)
                         IN more([hf EXCEPT ![copy].items =
                                     SetItem(@, StrVal(x), RefVal(fresh))],
                                 RefVal(fresh))

\* returns [exc, h]: the heap after the call
update_in(h, dct, path, value) ==
    LET w == UpdateWalk(h, dct, split(path, "."), 1) IN
    IF w.exc # "" THEN [exc |-> w.exc, h |-> w.h]
    ELSE IF ~isinstance_dict(w.h, w.prev) THEN [exc |-> "TypeError", h |-> w.h]
    ELSE [exc |-> "",
          h |-> [w.h EXCEPT ![w.prev.n].items = SetItem(@, StrVal(w.x), value)]]

-----------------------------------------------------------------------------
(* product_block_paths(subscription): the generator get_dict_items of      *)
(* lines 288-299, its yields collected in order, and line 301.             *)

\* f"{prefix}.{p}" for every path p
PrefixAll(prefix, paths) ==
    [i \in 1..Len(paths) |-> prefix \o <<".">> \o paths[i]]

RECURSIVE get_dict_items(_, _)
RECURSIVE ListItemPaths(_, _, _, _)

\* lines 295-299: the dict elements of a list value, by index
ListItemPaths(h, k, elems, i) ==
    IF i > Len(elems) THEN <<>>
    ELSE LET ki == k \o <<".">> \o str(i - 1)
             here == IF isinstance_dict(h, elems[i])
                     THEN PrefixAll(ki, get_dict_items(h, elems[i])) \o <<ki>>
                     ELSE <<>>
         IN here \o ListItemPaths(h, k, elems, i + 1)

\* a variant that yields the container before what it holds
EntryPathsParentFirst(h, k, v) ==
    IF isinstance_dict(h, v)
    THEN <<k>> \o PrefixAll(k, get_dict_items(h, v))
    ELSE IF isinstance_list(h, v)
    THEN ListItemPaths(h, k, h[v.n].items, 1)
    ELSE <<>>

\* lines 290-299: what one entry (k, v) of d.items() yields
EntryPaths(h, k, v) ==
    IF isinstance_dict(h, v)
    THEN PrefixAll(k, get_dict_items(h, v)) \o <<k>>
    ELSE IF isinstance_list(h, v)
    THEN ListItemPaths(h, k, h[v.n].items, 1)
    ELSE <<>>

RECURSIVE EntriesFrom(_, _, _)
EntriesFrom(h, items, i) ==
    IF i > Len(items) THEN <<>>
    ELSE EntryPaths(h, items[i].k.s, items[i].v) \o EntriesFrom(h, items, i + 1)

get_dict_items(h, d) == EntriesFrom(h, h[d.n].items, 1)

\* returns [exc, paths]; a list has no items()
product_block_paths(h, subscription) ==
    IF isinstance_dict(h, subscription)
    THEN [exc |-> "", paths |-> get_dict_items(h, subscription)]
    ELSE [exc |-> "AttributeError", paths |-> <<>>]

-----------------------------------------------------------------------------
(* The trees and the arguments the path accessors are called with.         *)

ka == StrVal(<<"a">>)
kb == StrVal(<<"b">>)
kc == StrVal(<<"c">>)
kd == StrVal(<<"d">>)

\* {}
TreeEmpty == <<DictObj(<<>>)>>
\* [10, 20, 30]
TreeList == <<ListObj(<<IntVal(10), IntVal(20), IntVal(30)>>)>>
\* {"a": {"b": 1}, "c": [{"d": 2}, 3]}
TreeExample ==
    <<DictObj(<<Item(ka, RefVal(2)), Item(kc, RefVal(3))>>),
      DictObj(<<Item(kb, IntVal(1))>>),
      ListObj(<<RefVal(4), IntVal(3)>>),
      DictObj(<<Item(kd, IntVal(2))>>)>>
\* {"a": {"b": {}}}
TreeNested ==
    <<DictObj(<<Item(ka, RefVal(2))>>),
      DictObj(<<Item(kb, RefVal(3))>>),
      DictObj(<<>>)>>
\* {"b": [3, {"a": 2}]}
TreeListValue ==
    <<DictObj(<<Item(kb, RefVal(2))>>),
      ListObj(<<IntVal(3), RefVal(3)>>),
      DictObj(<<Item(ka, IntVal(2))>>)>>
\* {"a": [{"a": 1, "b": 2}]}
TreePairs ==
    <<DictObj(<<Item(ka, RefVal(2))>>),
      ListObj(<<RefVal(3)>>),
      DictObj(<<Item(ka, IntVal(1)), Item(kb, IntVal(2))>>)>>
\* {"a": {"b": {"a": {}}, "c": [{"b": {}}]}, "b": [[{"a": {}}], {"a": 1, "b": {}}]}
TreeDeep ==
    <<DictObj(<<Item(ka, RefVal(2)), Item(kb, RefVal(7))>>),
      DictObj(<<Item(kb, RefVal(3)), Item(kc, RefVal(5))>>),
      DictObj(<<Item(ka, RefVal(4))>>),
      DictObj(<<>>),
      ListObj(<<RefVal(6)>>),
      DictObj(<<Item(kb, RefVal(4))>>),
      ListObj(<<RefVal(8), RefVal(10)>>),
      ListObj(<<RefVal(9)>>),
      DictObj(<<Item(ka, RefVal(11))>>),
      DictObj(<<Item(ka, IntVal(1)), Item(kb, RefVal(12))>>),
      DictObj(<<>>),
      DictObj(<<>>)>>

Trees ==
    <<TreeEmpty, TreeList, TreeExample, TreeNested, TreeListValue, TreePairs,
      TreeDeep>>

\* the path segments: two keys, an index in range and one out of range
Segs == {<<"a">>, <<"b">>, <<"1">>, <<"5">>}

Paths ==
    {join(p, <<".">>) : p \in UNION {[1..n -> Segs] : n \in 1..MaxPathLen}}

\* the values written: 5, a new {} and a new [10, 20]
ValueKinds == {"int", "dict", "list"}

\* the heap and the value once the caller has built the value
WithValue(h, kind) ==
    IF kind = "int" THEN [h |-> h, value |-> IntVal(5)]
    ELSE IF kind = "dict"
    THEN [h |-> Alloc(h, DictObj(<<>>)), value |-> RefVal(NewId(h))]
    ELSE [h |-> Alloc(h, ListObj(<<IntVal(10), IntVal(20)>>)),
          value |-> RefVal(NewId(h))]

\* every container of the tree is a mapping
MapsOnly(h, v) == \A id \in Reachable(h, v) : h[id].kind = "dict"

NoPathCall ==
    [op |-> "none", path |-> <<>>, value |-> None, exc |-> "", ret |-> None,
     paths |-> <<>>, mapsOnly |-> FALSE]

NoTextCall == [op |-> "none", q |-> <<>>, exc |-> "", failed |-> FALSE, ret |-> <<>>]
NoQueryCall == [op |-> "none"]

-----------------------------------------------------------------------------
(* The path accessors called on one tree: the caller reads with get_in or  *)
(* product_block_paths, or writes once with update_in and then reads the   *)
(* written path back with get_in or lists the paths.  A read leaves the    *)
(* tree as it is, so what follows a read is what could be done in its      *)
(* place.                                                                  *)

InitPath ==
    /\ \E i \in 1..Len(Trees) : heap = Trees[i]
    /\ pathCall = NoPathCall
    /\ textCall = NoTextCall
    /\ queryCall = NoQueryCall

UpdateIn(path, kind) ==
    /\ pathCall.op = "none"
    /\ LET a == WithValue(Collect(heap, {RefVal(Root)}), kind)
           r == update_in(a.h, RefVal(Root), path, a.value)
       IN /\ heap' = Collect(r.h, {RefVal(Root), a.value})
          /\ pathCall' = [op |-> "update_in", path |-> path, value |-> a.value,
                          exc |-> r.exc, ret |-> None, paths |-> <<>>,
                          mapsOnly |-> MapsOnly(heap, RefVal(Root))]
    /\ UNCHANGED <<textCall, queryCall>>

GetIn(path) ==
    /\ \/ pathCall.op = "none"
       \/ pathCall.op = "update_in" /\ pathCall.path = path
    /\ LET r == get_in(heap, RefVal(Root), path)
       IN pathCall' = [op |-> "get_in", path |-> path, value |-> None,
                       exc |-> r.exc, ret |-> r.ret, paths |-> <<>>,
                       mapsOnly |-> MapsOnly(heap, RefVal(Root))]
    /\ heap' = Collect(heap, {RefVal(Root)})
    /\ UNCHANGED <<textCall, queryCall>>

ProductBlockPaths ==
    /\ pathCall.op \in {"none", "update_in"}
    /\ LET r == product_block_paths(heap, RefVal(Root))
       IN pathCall' = [op |-> "product_block_paths", path |-> <<>>,
                       value |-> None, exc |-> r.exc, ret |-> None,
                       paths |-> r.paths,
                       mapsOnly |-> MapsOnly(heap, RefVal(Root))]
    /\ heap' = Collect(heap, {RefVal(Root)})
    /\ UNCHANGED <<textCall, queryCall>>

NextPath ==
    \/ \E path \in Paths, kind \in ValueKinds : UpdateIn(path, kind)
    \/ \E path \in Paths : GetIn(path)
    \/ ProductBlockPaths

SpecPath == InitPath /\ [][NextPath]_vars

-----------------------------------------------------------------------------
(* _process_text_query(q), lines 41-52, with the tokenizer it drives:      *)
(* shlex(q) in its default non-POSIX mode, whitespace_split = True and     *)
(* quotes = '"'.                                                           *)

Quote == "\""
Whitespace == {" ", "\t", "\r", "\n"}
Commenters == {"#"}

\* s.count(c)
count(s, c) == Cardinality({i \in 1..Len(s) : s[i] = c})

\* instream.readline(): the index after the rest of the line from i on
AfterLine(s, i) ==
    IF \E j \in i..Len(s) : s[j] = "\n"
    THEN 1 + CHOOSE j \in i..Len(s) :
                 s[j] = "\n" /\ \A k \in i..(j - 1) : s[k] # "\n"
    ELSE Len(s) + 1

\* The tokens read from character i on, in state st: "ws" between tokens,
\* "word" inside a word, "quote" inside a quoted span.  Returns
\* [exc, toks]; the end of input inside a quoted span raises ValueError.
RECURSIVE read_tokens(_, _, _, _, _)
read_tokens(s, i, st, tok, toks) ==
    IF i > Len(s)
    THEN IF st = "quote" THEN [exc |-> "ValueError", toks |-> toks]
         ELSE IF st = "word" THEN [exc |-> "", toks |-> Append(toks, tok)]
         ELSE [exc |-> "", toks |-> toks]
    ELSE LET c == s[i] IN
         IF st = "ws"
         THEN IF c \in Whitespace THEN read_tokens(s, i + 1, "ws", <<>>, toks)
              ELSE IF c \in Commenters
              THEN read_tokens(s, AfterLine(s, i + 1), "ws", <<>>, toks)
              ELSE IF c = Quote THEN read_tokens(s, i + 1, "quote", <<c>>, toks)
              ELSE read_tokens(s, i + 1, "word", <<c>>, toks)
         ELSE IF st = "quote"
         THEN IF c = Quote
              THEN read_tokens(s, i + 1, "ws", <<>>, Append(toks, Append(tok, c)))
              ELSE read_tokens(s, i + 1, "quote", Append(tok, c), toks)
         ELSE IF c \in Whitespace
              THEN read_tokens(s, i + 1, "ws", <<>>, Append(toks, tok))
              ELSE IF c \in Commenters
              THEN read_tokens(s, AfterLine(s, i + 1), "word", tok, toks)
              ELSE read_tokens(s, i + 1, "word", Append(tok, c), toks)

\* the iteration over lex of line 49
shlex(q) == read_tokens(q, 1, "ws", <<>>, <<>>)

\* lines 37-38
quote_if_kv_pair(token) ==
    IF \E i \in 1..Len(token) : token[i] = ":"
    THEN <<Quote>> \o token \o <<Quote>>
    ELSE token

\* lines 43-44: q after the balancing step
BalanceQuotes(q) == IF count(q, Quote) % 2 = 1 THEN Append(q, Quote) ELSE q

\* returns [exc, ret, failed]: failed when the tokenizer raised ValueError
process_text_query(q0) ==
    LET q == BalanceQuotes(q0)
        lex == shlex(q)
    IN IF lex.exc = ""
       THEN [exc |-> "", failed |-> FALSE,
             ret |-> join([i \in 1..Len(lex.toks) |-> quote_if_kv_pair(lex.toks[i])],
                          <<" ">>)]
       ELSE [exc |-> "", failed |-> TRUE, ret |-> q]

\* longest text query
MaxTextLen == 3

TextChars == {"a", ":", Quote, " ", "#", "\n"}

Texts == UNION {[1..n -> TextChars] : n \in 0..MaxTextLen}

InitText ==
    /\ heap = TreeEmpty
    /\ pathCall = NoPathCall
    /\ textCall = NoTextCall
    /\ queryCall = NoQueryCall

ProcessTextQuery(q) ==
    /\ LET r == process_text_query(q)
       IN textCall' = [op |-> "_process_text_query", q |-> q, exc |-> r.exc,
                       failed |-> r.failed, ret |-> r.ret]
    /\ UNCHANGED <<heap, pathCall, queryCall>>

NextText == \E q \in Texts : ProcessTextQuery(q)

SpecText == InitText /\ [][NextText]_vars

\* C9: _process_text_query never raises, and whenever tokenization fails
\* the value returned is the original input q, character for character.
C9_FailedTokenizationReturnsInput ==
    textCall.op = "_process_text_query" =>
        /\ textCall.exc = ""
        /\ textCall.failed => textCall.ret = textCall.q

-----------------------------------------------------------------------------
(* Properties of the path accessors.                                       *)

TheTree == RefVal(Root)

\* Every place of the tree under v: its path (a sequence of segments), the
\* value there, and whether the way to it passes no sequence that is
\* itself an element of a sequence.
RECURSIVE Places(_, _)
Places(h, v) ==
    IF v.t # "ref" THEN {}
    ELSE LET o == h[v.n]
             under(seg, c, okHere) ==
                 {[p |-> <<seg>>, v |-> c, ok |-> okHere]} \cup
                 {[p |-> <<seg>> \o r.p, v |-> r.v, ok |-> okHere /\ r.ok] :
                     r \in Places(h, c)}
         IN IF o.kind = "dict"
            THEN UNION {under(o.items[i].k.s, o.items[i].v, TRUE) :
                           i \in 1..Len(o.items)}
            ELSE UNION {under(str(i - 1), o.items[i],
                              ~isinstance_list(h, o.items[i])) :
                           i \in 1..Len(o.items)}

IsProperPrefix(p, q) == Len(p) < Len(q) /\ SubSeq(q, 1, Len(p)) = p

PositionOf(paths, path) == CHOOSE i \in 1..Len(paths) : paths[i] = path
Listed(paths, path) == \E i \in 1..Len(paths) : paths[i] = path

\* C1: after update_in(tree, path, v) on a tree of nested mappings,
\* get_in(tree, path) on that tree returns v, and every proper prefix of the
\* path addresses a mapping of the tree, also when the intermediate keys
\* were absent before the update.
C1_UpdateThenGetReturnsValue ==
    (pathCall.op = "update_in" /\ pathCall.exc = "" /\ pathCall.mapsOnly) =>
        LET segs == split(pathCall.path, ".")
            g == get_in(heap, TheTree, pathCall.path)
        IN /\ g.exc = ""
           /\ g.ret = pathCall.value
           /\ \A n \in 1..(Len(segs) - 1) :
                 LET gp == get_in(heap, TheTree, join(SubSeq(segs, 1, n), <<".">>))
                 IN gp.exc = "" /\ isinstance_dict(heap, gp.ret)

\* C4: get_in never fails on a missing mapping key; the only failure it
\* can produce is the out-of-range error of an index beyond a sequence.
C4_GetInFailsOnlyOutOfRange ==
    pathCall.op = "get_in" => pathCall.exc \in {"", "IndexError"}

-----------------------------------------------------------------------------
(* More of Python's str, for the filter and sort tokens.                   *)

LowerCase == <<"a", "b", "c", "d", "e", "f", "g", "h", "i", "j", "k", "l",
               "m", "n", "o", "p", "q", "r", "s", "t", "u", "v", "w", "x",
               "y", "z">>
UpperCase == <<"A", "B", "C", "D", "E", "F", "G", "H", "I", "J", "K", "L",
               "M", "N", "O", "P", "Q", "R", "S", "T", "U", "V", "W", "X",
               "Y", "Z">>

\* the characters of the model in code point order
CodePoints ==
    <<" ", "\"", "#", "-", "0", "1", "2", "3", "4", "5", "6", "7", "8",
      "9", ":">> \o UpperCase \o <<"_">> \o LowerCase

ord(c) == CHOOSE i \in 1..Len(CodePoints) : CodePoints[i] = c

LowerChar(c) ==
    IF \E i \in 1..Len(UpperCase) : UpperCase[i] = c
    THEN LowerCase[CHOOSE i \in 1..Len(UpperCase) : UpperCase[i] = c]
    ELSE c

UpperChar(c) ==
    IF \E i \in 1..Len(LowerCase) : LowerCase[i] = c
    THEN UpperCase[CHOOSE i \in 1..Len(LowerCase) : LowerCase[i] = c]
    ELSE c

\* s.lower(), s.upper()
lower(s) == [i \in 1..Len(s) |-> LowerChar(s[i])]
upper(s) == [i \in 1..Len(s) |-> UpperChar(s[i])]

\* s.endswith(suffix)
endswith(s, suffix) ==
    Len(s) >= Len(suffix)
    /\ SubSeq(s, Len(s) - Len(suffix) + 1, Len(s)) = suffix

\* s[:-n]
DropLast(s, n) == SubSeq(s, 1, Len(s) - n)

\* sub in s
Contains(s, sub) ==
    \E i \in 0..(Len(s) - Len(sub)) : SubSeq(s, i + 1, i + Len(sub)) = sub

\* a < b for text as the store compares it: character by character in code
\* point order
RECURSIVE StrLess(_, _)
StrLess(a, b) ==
    IF Len(b) = 0 THEN FALSE
    ELSE IF Len(a) = 0 THEN TRUE
    ELSE IF a[1] = b[1] THEN StrLess(Tail(a), Tail(b))
    ELSE ord(a[1]) < ord(b[1])

\* s.replace(c, "")
RECURSIVE Without(_, _)
Without(s, c) ==
    IF Len(s) = 0 THEN <<>>
    ELSE IF s[1] = c THEN Without(Tail(s), c)
    ELSE <<s[1]>> \o Without(Tail(s), c)

\* more_itertools.chunked(xs, n)
RECURSIVE chunked(_, _)
chunked(xs, n) ==
    IF Len(xs) = 0 THEN <<>>
    ELSE IF Len(xs) <= n THEN <<xs>>
    ELSE <<SubSeq(xs, 1, n)>> \o chunked(SubSeq(xs, n + 1, Len(xs)), n)

\* int(v) of lines 140-141: an int as it is, a str of digits parsed, any
\* other str a ValueError
int_of(v) ==
    IF v.t = "int" THEN [exc |-> "", n |-> v.n]
    ELSE IF isdigit(v.s) THEN [exc |-> "", n |-> int(v.s)]
    ELSE [exc |-> "ValueError", n |-> 0]

HexChars == DigitChars \cup {"a", "b", "c", "d", "e", "f"}

UuidHexLen == 32

\* UUID(value) of line 102: the hyphens dropped, 32 hexadecimal digits of
\* either case required.  Returns [exc, hex], hex in lower case.  (The
\* braces and the urn:uuid: prefix that UUID drops as well occur in no
\* value of the requests below.)
UUID(value) ==
    LET hex == Without(value, "-") IN
    IF Len(hex) = UuidHexLen /\ \A i \in 1..Len(hex) : LowerChar(hex[i]) \in HexChars
    THEN [exc |-> "", hex |-> lower(hex)]
    ELSE [exc |-> "ValueError", hex |-> <<>>]

-----------------------------------------------------------------------------
(* The store: the subscriptions, each joined with its product and with its *)
(* row of the search view, and the Query built over them.                  *)

BoolVal(b) == [t |-> "bool", n |-> IF b THEN 1 ELSE 0, s |-> <<>>]
UuidVal(hex) == [t |-> "uuid", n |-> 0, s |-> hex]

Customer1 == <<"a", "1", "b", "2", "c", "3", "d", "4", "0", "0", "0", "0",
               "0", "0", "0", "0", "0", "0", "0", "0", "0", "0", "0", "0",
               "0", "0", "0", "0", "0", "0", "0", "1">>
Customer2 == <<"a", "1", "b", "2", "c", "3", "d", "4", "0", "0", "0", "0",
               "0", "0", "0", "0", "0", "0", "0", "0", "0", "0", "0", "0",
               "0", "0", "0", "0", "0", "0", "0", "2">>

description == <<"d", "e", "s", "c", "r", "i", "p", "t", "i", "o", "n">>
status == <<"s", "t", "a", "t", "u", "s">>
insync == <<"i", "n", "s", "y", "n", "c">>
customer_id == <<"c", "u", "s", "t", "o", "m", "e", "r", "_", "i", "d">>
subscription_id == <<"s", "u", "b", "s", "c", "r", "i", "p", "t", "i", "o",
                     "n", "_", "i", "d">>
name == <<"n", "a", "m", "e">>
tag == <<"t", "a", "g">>

\* the names SubscriptionTable.__dict__ and ProductTable.__dict__ resolve
SubscriptionColumns ==
    {subscription_id, description, status, insync, customer_id}
ProductColumns == {name, tag}

Subscription(id, desc, st, sync, cust, pname, ptag, words) ==
    [id |-> id,
     subscription |->
        [c \in SubscriptionColumns |->
            IF c = subscription_id THEN IntVal(id)
            ELSE IF c = description THEN StrVal(desc)
            ELSE IF c = status THEN StrVal(st)
            ELSE IF c = insync THEN BoolVal(sync)
            ELSE UuidVal(cust)],
     product |-> [c \in ProductColumns |-> StrVal(IF c = name THEN pname ELSE ptag)],
     tsv |-> words]

Row1 ==
    Subscription(1,
                 <<"N", "o", "d", "e", " ", "A">>,
                 <<"a", "c", "t", "i", "v", "e">>,
                 TRUE, Customer1,
                 <<"N", "o", "d", "e">>,
                 <<"N", "o", "d", "e">>,
                 {<<"n", "o", "d", "e">>,
                  <<"a">>,
                  <<"s", "t", "a", "t", "u", "s">>,
                  <<"a", "c", "t", "i", "v", "e">>})
Row2 ==
    Subscription(2,
                 <<"p", "o", "r", "t", " ", "b">>,
                 <<"a", "c", "t", "i", "v", "e">>,
                 FALSE, Customer2,
                 <<"P", "o", "r", "t">>,
                 <<"S", "P">>,
                 {<<"p", "o", "r", "t">>,
                  <<"b">>,
                  <<"s", "t", "a", "t", "u", "s">>,
                  <<"a", "c", "t", "i", "v", "e">>})
Row3 ==
    Subscription(3,
                 <<"P", "o", "r", "t", " ", "c">>,
                 <<"i", "n", "i", "t", "i", "a", "l">>,
                 TRUE, Customer1,
                 <<"P", "o", "r", "t">>,
                 <<"S", "P">>,
                 {<<"p", "o", "r", "t">>,
                  <<"c">>,
                  <<"s", "t", "a", "t", "u", "s">>,
                  <<"i", "n", "i", "t", "i", "a", "l">>})
Row4 ==
    Subscription(4,
                 <<"L", "i", "n", "k">>,
                 <<"T", "e", "r", "m", "i", "n", "a", "t", "e", "d">>,
                 FALSE, Customer2,
                 <<"l", "i", "n", "k">>,
                 <<"L", "N", "K">>,
                 {<<"l", "i", "n", "k">>,
                  <<"s", "t", "a", "t", "u", "s">>,
                  <<"t", "e", "r", "m", "i", "n", "a", "t", "e", "d">>})

\* the orders in which the store hands out rows that no ORDER BY separates
Stores == <<<<Row1, Row2, Row3, Row4>>, <<Row4, Row3, Row2, Row1>>>>

\* cast(column, String)
CastString(v) ==
    IF v.t = "str" THEN v.s
    ELSE IF v.t = "bool" THEN (IF v.n = 1 THEN <<"t", "r", "u", "e">> ELSE
        <<"f", "a", "l", "s", "e">>)
    ELSE IF v.t = "int" THEN str(v.n)
    ELSE SubSeq(v.s, 1, 8) \o <<"-">> \o SubSeq(v.s, 9, 12) \o <<"-">>
         \o SubSeq(v.s, 13, 16) \o <<"-">> \o SubSeq(v.s, 17, 20) \o <<"-">>
         \o SubSeq(v.s, 21, 32)

\* the lexemes of a text under the "simple" configuration: its runs of
\* letters and digits, in lower case
IsAlnum(c) == LowerChar(c) \in {LowerCase[i] : i \in 1..Len(LowerCase)} \cup DigitChars

RECURSIVE LexemesFrom(_, _, _)
LexemesFrom(s, i, cur) ==
    IF i > Len(s) THEN (IF Len(cur) > 0 THEN {cur} ELSE {})
    ELSE IF IsAlnum(s[i]) THEN LexemesFrom(s, i + 1, Append(cur, LowerChar(s[i])))
    ELSE (IF Len(cur) > 0 THEN {cur} ELSE {}) \cup LexemesFrom(s, i + 1, <<>>)

\* websearch_to_tsquery("simple", text) @@ tsv: every lexeme of the text is
\* in the row's search vector (the positions of a quoted phrase are not
\* kept)
TsMatch(text, row) == LexemesFrom(text, 1, <<>>) \subseteq row.tsv

\* A criterion of Query.filter: [kind, table, col, val, vals, flag]
Criterion(kind, table, col, val, vals, flag) ==
    [kind |-> kind, table |-> table, col |-> col, val |-> val, vals |-> vals,
     flag |-> flag]

Cell(row, table, col) ==
    IF table = "product" THEN row.product[col] ELSE row.subscription[col]

\* whether a row satisfies a criterion
Satisfies(row, c) ==
    LET cell == Cell(row, c.table, c.col) IN
    IF c.kind = "gt" THEN StrLess(c.val, cell.s)
    ELSE IF c.kind = "ge" THEN ~StrLess(cell.s, c.val)
    ELSE IF c.kind = "le" THEN ~StrLess(c.val, cell.s)
    ELSE IF c.kind = "lt" THEN StrLess(cell.s, c.val)
    ELSE IF c.kind = "ne" THEN cell.s # c.val
    ELSE IF c.kind = "is" THEN (cell.n = 1) = c.flag
    ELSE IF c.kind = "lower_in"
    THEN \E i \in 1..Len(c.vals) : lower(cell.s) = c.vals[i]
    ELSE IF c.kind = "in" THEN \E i \in 1..Len(c.vals) : cell.s = c.vals[i]
    ELSE IF c.kind = "eq" THEN cell.s = c.val
    ELSE IF c.kind = "tsquery" THEN TsMatch(c.val, row)
    ELSE Contains(lower(CastString(cell)), lower(c.val))

\* the Query the caller passes in: the subscriptions joined with products
NewQuery == [where |-> <<>>, order_by |-> <<>>, slice |-> <<>>]

filter(query, c) == [query EXCEPT !.where = Append(@, c)]
order_by(query, table, col, desc) ==
    [query EXCEPT !.order_by = Append(@, [table |-> table, col |-> col, desc |-> desc])]
slice(query, start, stop) == [query EXCEPT !.slice = <<start, stop>>]

\* a < b for two cells of one column
CellLess(a, b) == IF a.t \in {"str", "uuid"} THEN StrLess(a.s, b.s) ELSE a.n < b.n

\* row a sorts strictly before row b under the ORDER BY list from key i on
RECURSIVE SortsBefore(_, _, _, _)
SortsBefore(a, b, keys, i) ==
    IF i > Len(keys) THEN FALSE
    ELSE LET ca == Cell(a, keys[i].table, keys[i].col)
             cb == Cell(b, keys[i].table, keys[i].col)
         IN IF ca = cb THEN SortsBefore(a, b, keys, i + 1)
            ELSE IF keys[i].desc THEN CellLess(cb, ca) ELSE CellLess(ca, cb)

\* rows in ORDER BY order, the rows the keys do not separate left in the
\* order the store hands them out
RECURSIVE Ordered(_, _)
Ordered(rows, keys) ==
    IF Len(rows) = 0 THEN <<>>
    ELSE LET rest == Ordered(SubSeq(rows, 1, Len(rows) - 1), keys)
             r == rows[Len(rows)]
             k == Cardinality({i \in 1..Len(rest) : ~SortsBefore(r, rest[i], keys, 1)})
         IN SubSeq(rest, 1, k) \o <<r>> \o SubSeq(rest, k + 1, Len(rest))

RECURSIVE Selected(_, _)
Selected(rows, where) ==
    IF Len(rows) = 0 THEN <<>>
    ELSE (IF \A i \in 1..Len(where) : Satisfies(rows[1], where[i])
          THEN <<rows[1]>> ELSE <<>>) \o Selected(Tail(rows), where)

Min(a, b) == IF a < b THEN a ELSE b

\* Query.count(): the rows of the query as it stands
query_count(rows, query) ==
    LET sel == Selected(rows, query.where) IN
    IF query.slice = <<>> THEN Len(sel)
    ELSE Len(SubSeq(sel, query.slice[1] + 1, Min(query.slice[2], Len(sel))))

\* Query.all(): OFFSET start LIMIT stop - start over the ordered selection
query_all(rows, query) ==
    LET sel == Ordered(Selected(rows, query.where), query.order_by) IN
    IF query.slice = <<>> THEN sel
    ELSE SubSeq(sel, query.slice[1] + 1, Min(query.slice[2], Len(sel)))

-----------------------------------------------------------------------------
(* _query_with_filters(response, query, range, sort, filters), lines       *)
(* 55-153.  An optional argument is [some, v]; a stage returns [err,       *)
(* query], err.kind = "" when nothing was raised.                          *)

Absent == [some |-> FALSE, v |-> <<>>]
Given(v) == [some |-> TRUE, v |-> v]

NoError == [kind |-> "", status_code |-> 0, detail |-> <<>>]
KeyError == [kind |-> "KeyError", status_code |-> 0, detail |-> <<>>]

BAD_REQUEST == 400

\* raise_status(status, detail) of orchestrator.api.error_handling ends the
\* request with an HTTP error that carries the status and the detail
raise_status(status_code, detail) ==
    [kind |-> "HTTPException", status_code |-> status_code, detail |-> detail]

Went(query) == [err |-> NoError, query |-> query]
Failed(err, query) == [err |-> err, query |-> query]

TruthyTokens ==
    {<<"y", "e", "s">>, <<"y">>, <<"y", "e">>, <<"t", "r", "u", "e">>,
        <<"1">>, <<"j", "a">>, <<"i", "n", "s", "y", "n", "c">>}

\* a variant that keeps the parts as they are written
PartsAsWritten(value) == split(value, "-")

\* [s.lower() for s in value.split("-")] of lines 83-99
LoweredParts(value) ==
    LET parts == split(value, "-") IN [i \in 1..Len(parts) |-> lower(parts[i])]

\* lines 69-78: SubscriptionTable.__dict__[name] <op> value
compare(query, kind, column, value) ==
    IF column \notin SubscriptionColumns THEN Failed(KeyError, query)
    ELSE Went(filter(query, Criterion(kind, "subscription", column, value, <<>>, FALSE)))

\* line 104: the text as it is written, the braces included
msg_not_a_uuid ==
    <<"N", "o", "t", " ", "a", " ", "v", "a", "l", "i", "d", " ", "c", "u",
      "s", "t", "o", "m", "e", "r", "_", "i", "d", ",", " ", "m", "u", "s",
      "t", " ", "b", "e", " ", "a", " ", "U", "U", "I", "D", ":", " ", "'">>
        \o <<"{">> \o <<"v", "a", "l", "u", "e">> \o <<"}", "'">>

\* line 145
msg_invalid_range == <<"I", "n", "v", "a", "l", "i", "d", " ", "r", "a",
                       "n", "g", "e", " ", "p", "a", "r", "a", "m", "e",
                       "t", "e", "r", "s">>

\* lines 100-107
organisation_filter(query, value) ==
    LET u == UUID(value) IN
    IF u.exc # ""
    THEN Failed(raise_status(BAD_REQUEST, msg_not_a_uuid), query)
    ELSE Went(filter(query,
                     Criterion("eq", "subscription", customer_id, u.hex, <<>>, FALSE)))

\* lines 65-121: one (field, value) pair
filter_pair(query, field, value) ==
    LET value_as_bool == lower(value) \in TruthyTokens IN
    IF endswith(field, <<"_", "g", "t">>) THEN compare(query, "gt", DropLast(field, 3), value)
    ELSE IF endswith(field, <<"_", "g", "t", "e">>) THEN compare(query, "ge", DropLast(field, 4), value)
    ELSE IF endswith(field, <<"_", "l", "t", "e">>) THEN compare(query, "le", DropLast(field, 4), value)
    ELSE IF endswith(field, <<"_", "l", "t">>) THEN compare(query, "lt", DropLast(field, 3), value)
    ELSE IF endswith(field, <<"_", "n", "e">>) THEN compare(query, "ne", DropLast(field, 3), value)
    ELSE IF field = <<"i", "n", "s", "y", "n", "c">>
    THEN Went(filter(query, Criterion("is", "subscription", insync, <<>>, <<>>,
                                      value_as_bool)))
    ELSE IF field = <<"t", "a", "g", "s">>
    THEN Went(filter(query, Criterion("lower_in", "product", tag, <<>>,
                                      LoweredParts(value), FALSE)))
    ELSE IF field = <<"t", "a", "g">>
    THEN Went(filter(query, Criterion("lower_in", "product", tag, <<>>,
                                      LoweredParts(value), FALSE)))
    ELSE IF field = <<"p", "r", "o", "d", "u", "c", "t">>
    THEN Went(filter(query, Criterion("lower_in", "product", name, <<>>,
                                      LoweredParts(value), FALSE)))
    ELSE IF field = <<"s", "t", "a", "t", "u", "s">>
    THEN Went(filter(query, Criterion("in", "subscription", status, <<>>,
                                      LoweredParts(value), FALSE)))
    ELSE IF field = <<"s", "t", "a", "t", "u", "s", "e", "s">>
    THEN Went(filter(query, Criterion("in", "subscription", status, <<>>,
                                      LoweredParts(value), FALSE)))
    ELSE IF field = <<"o", "r", "g", "a", "n", "i", "s", "a", "t", "i",
                      "o", "n">> THEN organisation_filter(query, value)
    ELSE IF field = <<"t", "s", "v">>
    THEN Went(filter(query, Criterion("tsquery", "subscription", subscription_id,
                                      process_text_query(value).ret, <<>>, FALSE)))
    ELSE IF field \in SubscriptionColumns
    THEN Went(filter(query, Criterion("ilike", "subscription", field, value, <<>>,
                                      FALSE)))
    ELSE Went(query)

\* lines 62-121: the loop over chunked(filters, 2), from chunk i on
RECURSIVE filter_chunks(_, _, _)
filter_chunks(query, chunks, i) ==
    IF i > Len(chunks) THEN Went(query)
    ELSE IF Len(chunks[i]) = 2
    THEN LET r == filter_pair(query, chunks[i][1], chunks[i][2]) IN
         IF r.err.kind # "" THEN r ELSE filter_chunks(r.query, chunks, i + 1)
    ELSE filter_chunks(query, chunks, i + 1)

filter_stage(query, filters) ==
    IF filters.some THEN filter_chunks(query, chunked(filters.v, 2), 1)
    ELSE Went(query)

\* a variant that reads the direction as it is written
is_desc_case_sensitive(direction) == direction = <<"D", "E", "S", "C">>

\* lines 128 and 133
is_desc(direction) == upper(direction) = <<"D", "E", "S", "C">>

\* lines 126-136: one (field, direction) pair
sort_item(query, item) ==
    IF item[1] \in {<<"p", "r", "o", "d", "u", "c", "t">>, <<"t", "a", "g">>}
    THEN order_by(query, "product",
                  IF item[1] = <<"p", "r", "o", "d", "u", "c", "t">> THEN name ELSE tag,
                  is_desc(item[2]))
    ELSE order_by(query, "subscription", item[1], is_desc(item[2]))

RECURSIVE sort_chunks(_, _, _)
sort_chunks(query, chunks, i) ==
    IF i > Len(chunks) THEN Went(query)
    ELSE IF Len(chunks[i]) = 2
    THEN IF chunks[i][1] \notin {<<"p", "r", "o", "d", "u", "c", "t">>,
        <<"t", "a", "g">>} \cup SubscriptionColumns
         THEN Failed(KeyError, query)
         ELSE sort_chunks(sort_item(query, chunks[i]), chunks, i + 1)
    ELSE sort_chunks(query, chunks, i + 1)

\* lines 123-136
sort_stage(query, sort) ==
    IF sort.some /\ Len(sort.v) >= 2 THEN sort_chunks(query, chunked(sort.v, 2), 1)
    ELSE Went(query)

\* the f-string of line 151
ContentRange(range_start, range_end, total) ==
    <<"s", "u", "b", "s", "c", "r", "i", "p", "t", "i", "o", "n", "s", " ">> \o str(range_start) \o <<"-">> \o str(range_end)
        \o <<"/">> \o str(total)

NoHeaders == [set |-> FALSE, content_range |-> <<>>]

\* a variant that reads the first two elements of a longer range
range_supplied_two_or_more(range) == range.some /\ Len(range.v) >= 2

\* line 138
range_supplied(range) == range.some /\ Len(range.v) = 2

\* a variant that lets a range through whose start equals its end
range_rejected_above(range_start, range_end) ==
    range_start.exc # "" \/ range_end.exc # "" \/ range_start.n > range_end.n

\* lines 139-144: whether the except clause is entered
range_rejected(range_start, range_end) ==
    range_start.exc # "" \/ range_end.exc # "" \/ range_start.n >= range_end.n

\* a variant that counts the query after slicing it
slice_then_count(rows, query, range_start, range_end) ==
    LET sliced == slice(query, range_start, range_end) IN
    [total |-> query_count(rows, sliced), query |-> sliced,
     calls |-> <<"slice", "count">>]

\* lines 148-149; calls lists the Query methods called, in order
count_then_slice(rows, query, range_start, range_end) ==
    [total |-> query_count(rows, query),
     query |-> slice(query, range_start, range_end),
     calls |-> <<"count", "slice">>]

\* lines 138-151
range_stage(rows, query, range) ==
    IF range_supplied(range)
    THEN LET range_start == int_of(range.v[1])
             range_end == int_of(range.v[2])
         IN IF range_rejected(range_start, range_end)
            THEN [err |-> raise_status(BAD_REQUEST, msg_invalid_range),
                  query |-> query, headers |-> NoHeaders, calls |-> <<>>]
            ELSE LET c == count_then_slice(rows, query, range_start.n, range_end.n)
                 IN [err |-> NoError, query |-> c.query,
                     headers |-> [set |-> TRUE,
                                  content_range |->
                                     ContentRange(range_start.n, range_end.n, c.total)],
                     calls |-> c.calls]
    ELSE [err |-> NoError, query |-> query, headers |-> NoHeaders, calls |-> <<>>]

Ids(rows) == [i \in 1..Len(rows) |-> rows[i].id]

\* The call: [err, stage, page, headers, calls].  stage is the stage that
\* raised, or "done"; page the ids of the rows returned.
query_with_filters(rows, range, sort, filters) ==
    LET f == filter_stage(NewQuery, filters) IN
    IF f.err.kind # ""
    THEN [err |-> f.err, stage |-> "filters", page |-> <<>>, headers |-> NoHeaders,
          calls |-> <<>>]
    ELSE LET s == sort_stage(f.query, sort) IN
         IF s.err.kind # ""
         THEN [err |-> s.err, stage |-> "sort", page |-> <<>>, headers |-> NoHeaders,
               calls |-> <<>>]
         ELSE LET r == range_stage(rows, s.query, range) IN
              IF r.err.kind # ""
              THEN [err |-> r.err, stage |-> "range", page |-> <<>>,
                    headers |-> r.headers, calls |-> r.calls]
              ELSE [err |-> NoError, stage |-> "done",
                    page |-> Ids(query_all(rows, r.query)),
                    headers |-> r.headers, calls |-> Append(r.calls, "all")]

-----------------------------------------------------------------------------
(* The requests: the filter, sort and range lists the listing is called    *)
(* with.                                                                   *)

\* most pairs in a filter list, most pairs in a sort list, most elements in
\* a range, highest position named in a range
MaxFilterPairs == 2
MaxSortPairs == 2
MaxRangeLen == 3
MaxRangePos == 3

NotAUuid == <<"n", "o", "t", "-", "a", "-", "u", "u", "i", "d">>
Customer1Text == <<"A", "1", "B", "2", "C", "3", "D", "4", "-", "0", "0",
                   "0", "0", "-", "0", "0", "0", "0", "-", "0", "0", "0",
                   "0", "-", "0", "0", "0", "0", "0", "0", "0", "0", "0",
                   "0", "0", "1">>

FilterPairs ==
    {<<<<"s", "t", "a", "t", "u", "s", "_", "g", "t">>,
        <<"a", "c", "t", "i", "v", "e">>>>,
     <<<<"s", "t", "a", "t", "u", "s", "_", "g", "t", "e">>,
         <<"a", "c", "t", "i", "v", "e">>>>,
     <<<<"d", "e", "s", "c", "r", "i", "p", "t", "i", "o", "n", "_", "l",
         "t", "e">>, <<"P", "o", "r", "t", " ", "c">>>>,
     <<<<"s", "t", "a", "t", "u", "s", "_", "l", "t">>, <<"b">>>>,
     <<<<"s", "t", "a", "t", "u", "s", "_", "n", "e">>,
         <<"a", "c", "t", "i", "v", "e">>>>,
     <<<<"i", "n", "s", "y", "n", "c">>, <<"Y", "E", "S">>>>,
     <<<<"i", "n", "s", "y", "n", "c">>, <<"n", "o">>>>,
     <<<<"t", "a", "g", "s">>, <<"s", "p", "-", "N", "O", "D", "E">>>>,
     <<<<"t", "a", "g">>, <<"l", "n", "k">>>>,
     <<<<"p", "r", "o", "d", "u", "c", "t">>,
         <<"P", "O", "R", "T", "-", "l", "i", "n", "k">>>>,
     <<<<"s", "t", "a", "t", "u", "s">>,
         <<"A", "C", "T", "I", "V", "E", "-", "i", "n", "i", "t", "i", "a",
           "l">>>>,
     <<<<"s", "t", "a", "t", "u", "s", "e", "s">>,
         <<"T", "e", "r", "m", "i", "n", "a", "t", "e", "d">>>>,
     <<<<"o", "r", "g", "a", "n", "i", "s", "a", "t", "i", "o", "n">>, Customer1Text>>,
     <<<<"o", "r", "g", "a", "n", "i", "s", "a", "t", "i", "o", "n">>, NotAUuid>>,
     <<<<"t", "s", "v">>, <<"s", "t", "a", "t", "u", "s", ":", "a", "c",
                            "t", "i", "v", "e">>>>,
     <<<<"d", "e", "s", "c", "r", "i", "p", "t", "i", "o", "n">>,
         <<"P", "O", "R", "T">>>>,
     <<<<"n", "o", "p", "e">>, <<"x">>>>,
     <<<<"n", "o", "p", "e", "_", "g", "t">>, <<"x">>>>}

SortPairs ==
    {<<"p", "r", "o", "d", "u", "c", "t">>, <<"t", "a", "g">>,
        <<"s", "t", "a", "t", "u", "s">>, <<"n", "o", "p", "e">>}
        \X {<<"d", "e", "s", "c">>, <<"D", "e", "s", "c">>,
            <<"a", "s", "c">>,
            <<"d", "e", "s", "c", "e", "n", "d", "i", "n", "g">>}

\* the flat list of a sequence of pairs
RECURSIVE Flat(_)
Flat(pairs) ==
    IF Len(pairs) = 0 THEN <<>> ELSE pairs[1] \o Flat(Tail(pairs))

PairLists(pairs, most) == UNION {[1..n -> pairs] : n \in 0..most}

\* the store takes one join of the search view
OneSearch(pairs) ==
    Cardinality({i \in 1..Len(pairs) : pairs[i][1] = <<"t", "s", "v">>}) <= 1

\* a list of pairs, alone or followed by a dangling token
FilterLists ==
    {Absent} \cup
    {Given(Flat(ps) \o d) :
        ps \in {p \in PairLists(FilterPairs, MaxFilterPairs) : OneSearch(p)},
        d \in {<<>>, <<<<"o", "r", "g", "a", "n", "i", "s", "a", "t", "i",
                         "o", "n">>>>}}

SortLists ==
    {Absent} \cup
    {Given(Flat(ps) \o d) :
        ps \in PairLists(SortPairs, MaxSortPairs), d \in {<<>>, <<
            <<"s", "t", "a", "t", "u", "s">>>>}}

RangeElements ==
    {IntVal(n) : n \in 0..MaxRangePos} \cup {StrVal(<<"2">>), StrVal(<<"x">>)}

\* every range of two elements, and the ranges of another length over two
\* of the elements
Ranges ==
    {Absent} \cup
    {Given(r) : r \in [1..2 -> RangeElements]} \cup
    {Given(r) : r \in UNION {[1..n -> {IntVal(0), StrVal(<<"x">>)}] :
                                n \in (0..MaxRangeLen) \ {2}}}

FewFilters ==
    {Absent,
     Given(<<<<"s", "t", "a", "t", "u", "s">>,
         <<"a", "c", "t", "i", "v", "e">>>>),
     Given(<<<<"o", "r", "g", "a", "n", "i", "s", "a", "t", "i", "o", "n">>, NotAUuid>>),
     Given(<<<<"n", "o", "p", "e", "_", "g", "t">>, <<"x">>>>)}

FewSorts ==
    {Absent, Given(<<<<"s", "t", "a", "t", "u", "s">>,
        <<"D", "e", "s", "c">>>>), Given(<<<<"n", "o", "p", "e">>,
        <<"a", "s", "c">>>>)}

Request(range, sort, filters) == [range |-> range, sort |-> sort, filters |-> filters]

\* every filter list, every sort list, and every range over a few filter
\* and sort lists
Requests ==
    {Request(Absent, Absent, f) : f \in FilterLists}
    \cup {Request(Absent, s, Absent) : s \in SortLists}
    \cup {Request(r, s, f) : r \in Ranges, s \in FewSorts, f \in FewFilters}

InitQuery ==
    /\ heap = TreeEmpty
    /\ pathCall = NoPathCall
    /\ textCall = NoTextCall
    /\ queryCall = NoQueryCall

\* one request served over the rows of the query passed in
QueryWithFilters(rows, request) ==
    /\ queryCall.op = "none"
    /\ queryCall' =
          [op |-> "_query_with_filters", rows |-> rows, request |-> request,
           out |-> query_with_filters(rows, request.range, request.sort,
                                      request.filters)]
    /\ UNCHANGED <<heap, pathCall, textCall>>

NextQuery ==
    /\ queryCall.op = "none"
    /\ \E i \in 1..Len(Stores), request \in Requests :
          QueryWithFilters(Stores[i], request)

SpecQuery == InitQuery /\ [][NextQuery]_vars

-----------------------------------------------------------------------------
(* Properties of _query_with_filters.                                      *)

Called == queryCall.op = "_query_with_filters"

\* the call under way with another range, sort or filter list
Rerun(range, sort, filters) ==
    query_with_filters(queryCall.rows, range, sort, filters)

RowOf(id) == CHOOSE r \in {queryCall.rows[i] : i \in 1..Len(queryCall.rows)} : r.id = id

Elements(seq) == {seq[i] : i \in 1..Len(seq)}

\* the complete pairs of a flat list, in order
PairsOf(list) ==
    [i \in 1..(Len(list) \div 2) |-> <<list[2 * i - 1], list[2 * i]>>]

IsTwoElements(range) == range.some /\ Len(range.v) = 2

Parses(v) == v.t = "int" \/ (v.t = "str" /\ isdigit(v.s))
NumberOf(v) == IF v.t = "int" THEN v.n ELSE int(v.s)

\* a range of two elements that parse, the first below the second
IsValidRange(range) ==
    /\ IsTwoElements(range)
    /\ Parses(range.v[1]) /\ Parses(range.v[2])
    /\ NumberOf(range.v[1]) < NumberOf(range.v[2])

InvalidRangeError ==
    [kind |-> "HTTPException", status_code |-> 400,
     detail |-> <<"I", "n", "v", "a", "l", "i", "d", " ", "r", "a", "n",
                  "g", "e", " ", "p", "a", "r", "a", "m", "e", "t", "e",
                  "r", "s">>]

\* C3: given a valid range [start, end], the total in the Content-Range
\* header is the number of records of the unsliced query, the page is the
\* records at positions start..end-1 of the filtered and ordered result,
\* the header reads "subscriptions {start}-{end}/{total}", and the count is
\* taken before the slice.
C3_CountBeforeSlice ==
    (Called /\ IsValidRange(queryCall.request.range)) =>
        LET all == Rerun(Absent, queryCall.request.sort, queryCall.request.filters)
            start == NumberOf(queryCall.request.range.v[1])
            end == NumberOf(queryCall.request.range.v[2])
            total == Len(all.page)
            out == queryCall.out
        IN /\ out.err = all.err
           /\ out.err = NoError =>
                /\ out.headers.set
                /\ out.headers.content_range =
                      <<"s", "u", "b", "s", "c", "r", "i", "p", "t", "i",
                        "o", "n", "s", " ">> \o str(start) \o <<"-">> \o str(end)
                          \o <<"/">> \o str(total)
                /\ (start = 1 /\ end = 3 /\ total = 4) =>
                      out.headers.content_range =
                          <<"s", "u", "b", "s", "c", "r", "i", "p", "t",
                            "i", "o", "n", "s", " ", "1", "-", "3", "/", "4">>
                /\ out.page = SubSeq(all.page, start + 1, Min(end, total))
                /\ Len(out.page) <= end - start
                /\ out.calls = <<"count", "slice", "all">>

\* C3: a page cut at both ends out of a longer result
C3_Witness ==
    /\ Called /\ IsValidRange(queryCall.request.range)
    /\ queryCall.out.err = NoError
    /\ NumberOf(queryCall.request.range.v[1]) = 1
    /\ Len(queryCall.out.page) = 2
    /\ queryCall.out.headers.content_range =
        <<"s", "u", "b", "s", "c", "r", "i", "p", "t", "i", "o", "n", "s",
          " ", "1", "-", "3", "/", "4">>

\* C5: a range of two elements whose start is not below its end, or with an
\* element that does not parse as an integer, fails the call: no page, no
\* count, no slice, no Content-Range header; once the filters and the sort
\* are through, the failure is the 400 "Invalid range parameters".
C5_InvalidRangeRejected ==
    (Called /\ IsTwoElements(queryCall.request.range)
        /\ ~IsValidRange(queryCall.request.range)) =>
        LET out == queryCall.out IN
        /\ out.err # NoError
        /\ out.page = <<>>
        /\ Elements(out.calls) \cap {"count", "slice", "all"} = {}
        /\ ~out.headers.set
        /\ out.stage \notin {"filters", "sort"} => out.err = InvalidRangeError

\* C5: a range whose start equals its end, rejected by the range check
C5_Witness ==
    /\ Called /\ IsTwoElements(queryCall.request.range)
    /\ Parses(queryCall.request.range.v[1]) /\ Parses(queryCall.request.range.v[2])
    /\ NumberOf(queryCall.request.range.v[1]) = NumberOf(queryCall.request.range.v[2])
    /\ queryCall.out.stage = "range"
    /\ queryCall.out.err = InvalidRangeError

IsUuid(value) ==
    LET hex == Without(value, "-") IN
    Len(hex) = 32 /\ \A i \in 1..Len(hex) : LowerChar(hex[i]) \in HexChars

\* C6: a filter list with a pair ("organisation", v), v not a UUID, fails
\* with a 400 whose message contains "must be a UUID", whatever the other
\* pairs, the sort list and the range are; no page, no Content-Range header.
\* With v a UUID the pair keeps the records of that customer id.
C6_BadOrganisationAlwaysAborts ==
    (Called /\ queryCall.request.filters.some) =>
        LET pairs == PairsOf(queryCall.request.filters.v)
            out == queryCall.out
        IN \A i \in 1..Len(pairs) :
              pairs[i][1] = <<"o", "r", "g", "a", "n", "i", "s", "a", "t",
                              "i", "o", "n">> =>
                 IF IsUuid(pairs[i][2])
                 THEN \A id \in Elements(out.page) :
                         RowOf(id).subscription[customer_id].s
                            = lower(Without(pairs[i][2], "-"))
                 ELSE /\ out.err.kind = "HTTPException"
                      /\ out.err.status_code = 400
                      /\ Contains(out.err.detail,
                          <<"m", "u", "s", "t", " ", "b", "e", " ", "a",
                            " ", "U", "U", "I", "D">>)
                      /\ out.page = <<>>
                      /\ ~out.headers.set


Suffixes == <<<<"_", "g", "t">>, <<"_", "g", "t", "e">>,
    <<"_", "l", "t", "e">>, <<"_", "l", "t">>, <<"_", "n", "e">>>>

SpecialNames ==
    {<<"i", "n", "s", "y", "n", "c">>, <<"t", "a", "g", "s">>,
        <<"t", "a", "g">>, <<"p", "r", "o", "d", "u", "c", "t">>,
        <<"s", "t", "a", "t", "u", "s">>,
        <<"s", "t", "a", "t", "u", "s", "e", "s">>,
     <<"o", "r", "g", "a", "n", "i", "s", "a", "t", "i", "o", "n">>,
         <<"t", "s", "v">>}

HasSuffix(field) == \E i \in 1..Len(Suffixes) : endswith(field, Suffixes[i])

\* the first suffix of the priority order the field ends with
SuffixOf(field) ==
    Suffixes[CHOOSE i \in 1..Len(Suffixes) :
                /\ endswith(field, Suffixes[i])
                /\ \A j \in 1..(i - 1) : ~endswith(field, Suffixes[j])]

\* a field that selects one of the rules 1-8
Recognised(field) ==
    HasSuffix(field) \/ field \in SpecialNames \/ field \in SubscriptionColumns

\* the lower-cased parts of a value split on "-"
LowerSet(value) == {lower(p) : p \in Elements(split(value, "-"))}

\* the predicate of rule 1 on a text field
Compares(text, suffix, value) ==
    IF suffix = <<"_", "g", "t">> THEN StrLess(value, text)
    ELSE IF suffix = <<"_", "g", "t", "e">> THEN text = value \/ StrLess(value, text)
    ELSE IF suffix = <<"_", "l", "t", "e">> THEN text = value \/ StrLess(text, value)
    ELSE IF suffix = <<"_", "l", "t">> THEN StrLess(text, value)
    ELSE text # value

\* the predicate the one rule selected by the field puts on a record
RuleHolds(row, field, value) ==
    IF HasSuffix(field)
    THEN LET suffix == SuffixOf(field) IN
         Compares(row.subscription[DropLast(field, Len(suffix))].s, suffix, value)
    ELSE IF field = <<"i", "n", "s", "y", "n", "c">>
    THEN (row.subscription[insync].n = 1) <=> (lower(value) \in TruthyTokens)
    ELSE IF field \in {<<"t", "a", "g", "s">>, <<"t", "a", "g">>}
    THEN lower(row.product[tag].s) \in LowerSet(value)
    ELSE IF field = <<"p", "r", "o", "d", "u", "c", "t">>
    THEN lower(row.product[name].s) \in LowerSet(value)
    ELSE IF field \in {<<"s", "t", "a", "t", "u", "s">>,
        <<"s", "t", "a", "t", "u", "s", "e", "s">>}
    THEN row.subscription[status].s \in LowerSet(value)
    ELSE IF field = <<"o", "r", "g", "a", "n", "i", "s", "a", "t", "i",
                      "o", "n">>
    THEN row.subscription[customer_id].s = lower(Without(value, "-"))
    ELSE IF field = <<"t", "s", "v">>
    THEN LexemesFrom(process_text_query(value).ret, 1, <<>>) \subseteq row.tsv
    ELSE IF field \in SubscriptionColumns
    THEN Contains(lower(CastString(row.subscription[field])), lower(value))
    ELSE TRUE

\* the flat list of the complete pairs with a recognised field
RECURSIVE RecognisedOnly(_)
RecognisedOnly(pairs) ==
    IF Len(pairs) = 0 THEN <<>>
    ELSE (IF Recognised(pairs[1][1]) THEN pairs[1] ELSE <<>>)
            \o RecognisedOnly(Tail(pairs))

\* C7: the records returned are exactly those that satisfy the predicate of
\* every complete pair whose field selects one of the rules 1-8; a dangling
\* last token and a pair with a field that is neither a special name nor a
\* schema field add nothing: the result is that of the list without them.
C7_ConjunctionOfRecognisedPairs ==
    (Called /\ queryCall.request.filters.some /\ queryCall.out.err = NoError
        /\ ~IsTwoElements(queryCall.request.range)) =>
        LET pairs == PairsOf(queryCall.request.filters.v)
            page == queryCall.out.page
            kept == RecognisedOnly(pairs)
        IN /\ Elements(page) =
                {r.id : r \in {q \in Elements(queryCall.rows) :
                                  \A i \in 1..Len(pairs) :
                                     RuleHolds(q, pairs[i][1], pairs[i][2])}}
           /\ Cardinality(Elements(page)) = Len(page)
           /\ page = Rerun(queryCall.request.range, queryCall.request.sort,
                           Given(kept)).page

\* C7: two recognised pairs and a dangling token that keep some records
\* and drop others
C7_Witness ==
    /\ Called /\ queryCall.request.filters.some /\ queryCall.out.err = NoError
    /\ queryCall.request.range = Absent
    /\ Len(queryCall.request.filters.v) = 5
    /\ \A i \in 1..2 : Recognised(PairsOf(queryCall.request.filters.v)[i][1])
    /\ PairsOf(queryCall.request.filters.v)[1][1]
          # PairsOf(queryCall.request.filters.v)[2][1]
    /\ Len(queryCall.out.page) = 2

\* the ordering keys of a sort list: none for a list shorter than 2, else
\* one per complete pair
KeysOf(sort) ==
    IF sort.some /\ Len(sort.v) >= 2 THEN PairsOf(sort.v) ELSE <<>>

\* the value a record is ordered by under a key
KeyValue(row, field) ==
    IF field = <<"p", "r", "o", "d", "u", "c", "t">> THEN row.product[name]
    ELSE IF field = <<"t", "a", "g">> THEN row.product[tag]
    ELSE row.subscription[field]

\* record a comes strictly before record b under the keys from key i on
RECURSIVE ComesBefore(_, _, _, _)
ComesBefore(a, b, keys, i) ==
    IF i > Len(keys) THEN FALSE
    ELSE LET va == KeyValue(a, keys[i][1])
             vb == KeyValue(b, keys[i][1])
             descending == lower(keys[i][2]) = <<"d", "e", "s", "c">>
         IN IF va = vb THEN ComesBefore(a, b, keys, i + 1)
            ELSE IF descending THEN CellLess(vb, va) ELSE CellLess(va, vb)

ProductDescStatusAsc == <<<<"p", "r", "o", "d", "u", "c", "t">>,
    <<"d", "e", "s", "c">>, <<"s", "t", "a", "t", "u", "s">>,
    <<"a", "s", "c">>>>

\* C8: the i-th pair of a sort list of length >= 2 is the i-th ordering key,
\* on the product's name for "product", the product's tag for "tag" and
\* the record's own field otherwise, descending exactly when the direction
\* is "DESC" in any case; a shorter list and a dangling token add no
\* ordering.
C8_SortPairsInEncounterOrder ==
    (Called /\ queryCall.out.err = NoError
        /\ ~IsTwoElements(queryCall.request.range)) =>
        LET keys == KeysOf(queryCall.request.sort)
            page == queryCall.out.page
            unsorted == Rerun(queryCall.request.range, Absent,
                              queryCall.request.filters).page
        IN /\ Elements(page) = Elements(unsorted) /\ Len(page) = Len(unsorted)
           /\ \A i \in 1..Len(page) : \A j \in (i + 1)..Len(page) :
                 ~ComesBefore(RowOf(page[j]), RowOf(page[i]), keys, 1)
           /\ keys = <<>> => page = unsorted
           /\ (queryCall.request.sort = Given(ProductDescStatusAsc)
                 /\ ~queryCall.request.filters.some) => page = <<4, 2, 3, 1>>

\* C8: the second key breaks the tie the first key leaves
C8_Witness ==
    /\ Called /\ queryCall.out.err = NoError
    /\ queryCall.request.sort = Given(ProductDescStatusAsc)
    /\ queryCall.rows[1].id = 4
    /\ queryCall.out.page = <<4, 2, 3, 1>>

ThroughFiltersAndSort == queryCall.out.stage \notin {"filters", "sort"}

\* C10: with a range supplied, the call fails with the client error
\* "Invalid range parameters" or returns a sliced page with a Content-Range
\* header; a range that has not two elements is rejected.
C10_SuppliedRangeRejectedOrSliced ==
    (Called /\ queryCall.request.range.some /\ ThroughFiltersAndSort) =>
        \/ queryCall.out.err = InvalidRangeError
        \/ /\ queryCall.out.err = NoError
           /\ queryCall.out.headers.set
           /\ Len(queryCall.request.range.v) = 2

\* C10: with a range of two elements supplied, the call fails with the
\* client error "Invalid range parameters" or returns a sliced page with a
\* Content-Range header; a range supplied with another number of elements
\* is treated like an absent range: all results, no header, no error.
C10_RangeOfOtherLengthActsAsAbsent ==
    (Called /\ queryCall.request.range.some /\ ThroughFiltersAndSort) =>
        IF Len(queryCall.request.range.v) = 2
        THEN \/ queryCall.out.err = InvalidRangeError
             \/ /\ queryCall.out.err = NoError
                /\ queryCall.out.headers.set
                /\ queryCall.out.calls = <<"count", "slice", "all">>
        ELSE /\ queryCall.out =
                   Rerun(Absent, queryCall.request.sort, queryCall.request.filters)
             /\ queryCall.out.err = NoError
             /\ ~queryCall.out.headers.set
             /\ queryCall.out.calls = <<"all">>

\* C10: a range of three elements, all records returned
C10_Witness ==
    /\ Called /\ queryCall.request.range.some
    /\ Len(queryCall.request.range.v) = 3
    /\ queryCall.out.err = NoError
    /\ Len(queryCall.out.page) = Len(queryCall.rows)

=============================================================================
